---- MODULE Spec2Model ----
(***************************************************************************)
(* A model of the VAERS frequent-itemset pipeline:                         *)
(*   src/cloud_function/main.py       (the pipeline, sparse encoder)       *)
(*   src/proj_code_pkg/freq_itemsets.py (basket builder, dense encoder)    *)
(*   src/proj_code_pkg/vaers_csv.py   (readers and the join)               *)
(*                                                                         *)
(* Numbers that are floats in the program are modelled exactly: an age is  *)
(* a count of 1/AgeDenom years (or NaN), a support is a count of baskets   *)
(* out of n, a threshold is a fraction num/den.  Comparisons are done by   *)
(* cross-multiplication, so no rounding is modelled.                       *)
(*                                                                         *)
(* The library calls (pandas.merge, DataFrame.apply, TransactionEncoder,   *)
(* fpgrowth, association_rules) are modelled by what the library does for  *)
(* the arguments the program passes; each is mapped to its call site.      *)
(***************************************************************************)
EXTENDS Integers, Sequences, FiniteSets, TLC

VARIABLES
    pc,                 \* position of the run (per specification)
    age, group, fi_group,   \* convert_to_age_group: input, result (main.py), result (freq_itemsets.py)
    row, basket,        \* build_basket: input row, returned list
    data, symptoms, vax,    \* the three input files / dataframes
    merged_data,        \* merge_dataframes' result
    baskets,            \* list of baskets
    one_hot, dense_df,  \* one-hot dataframes: sparse (main.py), dense (freq_itemsets.py)
    frequent_itemsets,  \* fpgrowth's result
    assoc_rules,        \* association_rules' result
    written,            \* output files written so far: path -> table
    error,              \* the exception that ended the run, or NoError
    cfg                 \* main's parameters: min_support, metric, min_threshold

vars == <<pc, age, group, fi_group, row, basket, data, symptoms, vax, merged_data,
          baskets, one_hot, dense_df, frequent_itemsets, assoc_rules, written,
          error, cfg>>

\* ---------------------------------------------------------------- bounds
\* ages are counted in 1/AgeDenom years
AgeDenom == 2
\* largest age drawn, in years
MaxAge == 80
\* a drawn row has at most this many non-missing fields
MaxPresent == 3
\* report keys are 1..NumKeys
NumKeys == 2
\* rows per input table of the join
MaxRows == 2
\* one-hot encoder inputs: tokens, basket length, number of baskets
NumTokens == 2
MaxBasketLen == 2
MaxBaskets == 2
\* mining inputs: number of baskets and of tokens
MineTokens == 2
MineBaskets == 2

\* ---------------------------------------------------------------- values
\* the value of a variable a specification does not use
Unused == [kind |-> "unused"]
NoError == "none"
\* a missing string value: NaN in an object column, or pd.NA
NA == "<NA>"
\* a float value: NaN, or num/AgeDenom
NaN == [nan |-> TRUE, num |-> 0]

Float(n) == [nan |-> FALSE, num |-> n]

\* pd.isna on the objects build_basket passes (strings, NaN of an object column, pd.NA)
isna(obj) == obj = NA

Range(s) == {s[i] : i \in DOMAIN s}

\* ------------------------------------------------ basket builder (main.py)
\* a float comparison age < years: False when age is NaN
FloatLt(a, years) == ~a.nan /\ a.num < years * AgeDenom

\* a boundary comparison written <= instead of <
convert_to_age_group_le(a) ==
    IF FloatLt(a, 3) \/ (~a.nan /\ a.num = 3 * AgeDenom) THEN "Age 0-2"
    ELSE IF FloatLt(a, 6) THEN "Age 3-5"
    ELSE IF FloatLt(a, 14) THEN "Age 6-13"
    ELSE IF FloatLt(a, 19) THEN "Age 14-18"
    ELSE IF FloatLt(a, 34) THEN "Age 19-33"
    ELSE IF FloatLt(a, 49) THEN "Age 34-48"
    ELSE IF FloatLt(a, 65) THEN "Age 49-64"
    ELSE IF FloatLt(a, 79) THEN "Age 65-78"
    ELSE "Age 79-older"

convert_to_age_group(a) ==
    IF FloatLt(a, 3) THEN "Age 0-2"
    ELSE IF FloatLt(a, 6) THEN "Age 3-5"
    ELSE IF FloatLt(a, 14) THEN "Age 6-13"
    ELSE IF FloatLt(a, 19) THEN "Age 14-18"
    ELSE IF FloatLt(a, 34) THEN "Age 19-33"
    ELSE IF FloatLt(a, 49) THEN "Age 34-48"
    ELSE IF FloatLt(a, 65) THEN "Age 49-64"
    ELSE IF FloatLt(a, 79) THEN "Age 65-78"
    ELSE "Age 79-older"

\* the copy in freq_itemsets.py
fi_convert_to_age_group(a) ==
    IF FloatLt(a, 3) THEN "Age 0-2"
    ELSE IF FloatLt(a, 6) THEN "Age 3-5"
    ELSE IF FloatLt(a, 14) THEN "Age 6-13"
    ELSE IF FloatLt(a, 19) THEN "Age 14-18"
    ELSE IF FloatLt(a, 34) THEN "Age 19-33"
    ELSE IF FloatLt(a, 49) THEN "Age 34-48"
    ELSE IF FloatLt(a, 65) THEN "Age 49-64"
    ELSE IF FloatLt(a, 79) THEN "Age 65-78"
    ELSE "Age 79-older"

convert_to_sex_group(sex) ==
    IF sex = "F" THEN "Female"
    ELSE IF sex = "M" THEN "Male"
    ELSE "Unknown Sex"

convert_to_labeled_item(d, label) ==
    IF ~isna(d) /\ d = "Y" THEN label ELSE NA

append_if_not_na(list, obj) ==
    IF ~isna(obj) THEN Append(list, obj) ELSE list

\* a copy-paste slip: L_THREAT labelled like DIED
FlagLabel_copied(f) ==
    CASE f = "DIED" -> "Died"
      [] f = "L_THREAT" -> "Died"
      [] f = "ER_VISIT" -> "Emergency room visit"
      [] f = "HOSPITAL" -> "Hospitalized "
      [] f = "X_STAY" -> "Prolongation of existing hospitalization"
      [] f = "DISABLE" -> "Disability"
      [] f = "RECOVD" -> "Recovered"
      [] f = "BIRTH_DEFECT" -> "Birth defect"

\* the label build_basket passes with each boolean field
FlagLabel(f) ==
    CASE f = "DIED" -> "Died"
      [] f = "L_THREAT" -> "Life-threatening illness"
      [] f = "ER_VISIT" -> "Emergency room visit"
      [] f = "HOSPITAL" -> "Hospitalized "
      [] f = "X_STAY" -> "Prolongation of existing hospitalization"
      [] f = "DISABLE" -> "Disability"
      [] f = "RECOVD" -> "Recovered"
      [] f = "BIRTH_DEFECT" -> "Birth defect"

FlagFields == <<"DIED", "L_THREAT", "ER_VISIT", "HOSPITAL", "X_STAY", "DISABLE",
                "RECOVD", "BIRTH_DEFECT">>

PassFieldsTail == <<"VAX_NAME", "SYMPTOM1", "SYMPTOM2", "SYMPTOM3", "SYMPTOM4", "SYMPTOM5">>

\* the columns build_basket reads, in the order it reads them
BasketColumns == <<"STATE", "AGE_YRS", "SEX">> \o FlagFields \o PassFieldsTail

\* the object build_basket passes to append_if_not_na for column f
basket_arg(data_row, f) ==
    IF f = "AGE_YRS" THEN convert_to_age_group(data_row[f])
    ELSE IF f = "SEX" THEN convert_to_sex_group(data_row[f])
    ELSE IF f \in Range(FlagFields) THEN convert_to_labeled_item(data_row[f], FlagLabel(f))
    ELSE data_row[f]

RECURSIVE append_all(_, _, _)
append_all(list, data_row, i) ==
    IF i > Len(BasketColumns) THEN list
    ELSE append_all(append_if_not_na(list, basket_arg(data_row, BasketColumns[i])),
                    data_row, i + 1)

build_basket(data_row) == append_all(<<>>, data_row, 1)

\* data_row[c] raises KeyError when the merged frame has no column c
build_basket_raises(data_row) ==
    \E i \in DOMAIN BasketColumns : BasketColumns[i] \notin DOMAIN data_row

\* ---------------------------------------------- specification: age groups
Ages == {NaN} \cup {Float(n) : n \in (0 - AgeDenom) .. (MaxAge * AgeDenom)}

InitAge ==
    /\ pc = "age"
    /\ age \in Ages
    /\ group = Unused /\ fi_group = Unused
    /\ row = Unused /\ basket = Unused
    /\ data = Unused /\ symptoms = Unused /\ vax = Unused /\ merged_data = Unused
    /\ baskets = Unused /\ one_hot = Unused /\ dense_df = Unused
    /\ frequent_itemsets = Unused /\ assoc_rules = Unused
    /\ written = Unused /\ error = NoError /\ cfg = Unused

ConvertAge ==
    /\ pc = "age"
    /\ group' = convert_to_age_group(age)
    /\ fi_group' = fi_convert_to_age_group(age)
    /\ pc' = "grouped"
    /\ UNCHANGED <<age, row, basket, data, symptoms, vax, merged_data, baskets, one_hot,
                   dense_df, frequent_itemsets, assoc_rules, written, error, cfg>>

NextAge == ConvertAge

SpecAge == InitAge /\ [][NextAge]_vars

\* the nine ranges of the age grouping, in years: [lo, hi) -> label; the last is unbounded
AgeRanges ==
    << [lo |-> 0, hi |-> 3, label |-> "Age 0-2"],
       [lo |-> 3, hi |-> 6, label |-> "Age 3-5"],
       [lo |-> 6, hi |-> 14, label |-> "Age 6-13"],
       [lo |-> 14, hi |-> 19, label |-> "Age 14-18"],
       [lo |-> 19, hi |-> 34, label |-> "Age 19-33"],
       [lo |-> 34, hi |-> 49, label |-> "Age 34-48"],
       [lo |-> 49, hi |-> 65, label |-> "Age 49-64"],
       [lo |-> 65, hi |-> 79, label |-> "Age 65-78"],
       [lo |-> 79, hi |-> 0 - 1, label |-> "Age 79-older"] >>

InAgeRange(a, r) ==
    /\ ~a.nan
    /\ r.lo * AgeDenom <= a.num
    /\ (r.hi >= 0 => a.num < r.hi * AgeDenom)

\* C2: for every age a >= 0 exactly one of the nine ranges [0,3), [3,6), [6,14),
\* [14,19), [19,34), [34,49), [49,65), [65,79), [79,inf) contains a, and both copies of
\* convert_to_age_group return that range's label (so a boundary value gets the
\* upper range's label).
C2_AgeGroupPartition ==
    (pc = "grouped" /\ ~age.nan /\ age.num >= 0) =>
        /\ Cardinality({i \in DOMAIN AgeRanges : InAgeRange(age, AgeRanges[i])}) = 1
        /\ \A i \in DOMAIN AgeRanges :
              InAgeRange(age, AgeRanges[i]) =>
                  group = AgeRanges[i].label /\ fi_group = AgeRanges[i].label

\* a boundary age (3 years) has been grouped into the upper range
C2_Witness ==
    /\ pc = "grouped" /\ ~age.nan /\ age.num = 3 * AgeDenom
    /\ group = "Age 3-5" /\ fi_group = "Age 3-5"

\* ------------------------------------------- specification: basket builder
\* the values a present field is drawn from
PresentValues(f) ==
    IF f = "STATE" THEN <<"CA">>
    ELSE IF f = "AGE_YRS" THEN <<Float(1), Float(3 * AgeDenom), Float(MaxAge * AgeDenom)>>
    ELSE IF f = "SEX" THEN <<"F", "M", "U">>
    ELSE IF f \in Range(FlagFields) THEN <<"Y", "N">>
    ELSE IF f = "VAX_NAME" THEN <<"FLU">>
    ELSE <<"Pain", "Disability">>

\* a missing value as read_csv gives it: NaN in the float column AGE_YRS, NaN/NA elsewhere
MissingValue(f) == IF f = "AGE_YRS" THEN NaN ELSE NA

IsMissing(data_row, f) == IF f = "AGE_YRS" THEN data_row[f].nan ELSE data_row[f] = NA

InitBasket ==
    /\ pc = "row"
    /\ \E S \in SUBSET Range(BasketColumns) :
          /\ Cardinality(S) <= MaxPresent
          /\ \E v \in [S -> 1 .. 3] :
                /\ \A f \in S : v[f] <= Len(PresentValues(f))
                /\ row = [f \in Range(BasketColumns) |->
                             IF f \in S THEN PresentValues(f)[v[f]] ELSE MissingValue(f)]
    /\ basket = Unused
    /\ age = Unused /\ group = Unused /\ fi_group = Unused
    /\ data = Unused /\ symptoms = Unused /\ vax = Unused /\ merged_data = Unused
    /\ baskets = Unused /\ one_hot = Unused /\ dense_df = Unused
    /\ frequent_itemsets = Unused /\ assoc_rules = Unused
    /\ written = Unused /\ error = NoError /\ cfg = Unused

BuildBasket ==
    /\ pc = "row"
    /\ basket' = build_basket(row)
    /\ pc' = "built"
    /\ UNCHANGED <<age, group, fi_group, row, data, symptoms, vax, merged_data, baskets,
                   one_hot, dense_df, frequent_itemsets, assoc_rules, written, error, cfg>>

NextBasket == BuildBasket

SpecBasket == InitBasket /\ [][NextBasket]_vars

\* the columns whose call to append_if_not_na appended a token for data_row
Contributed(data_row) ==
    {f \in Range(BasketColumns) : ~isna(basket_arg(data_row, f))}

\* C1: build_basket appends no token for a column whose value is missing, except SEX,
\* which always contributes exactly one token; a row whose AGE_YRS is missing gets no
\* age-group token.
C1_NoTokenFromMissingField ==
    pc = "built" =>
        /\ \A f \in Range(BasketColumns) \ {"SEX"} :
              IsMissing(row, f) => f \notin Contributed(row)
        /\ "SEX" \in Contributed(row)
        /\ Len(basket) = Cardinality(Contributed(row))

PassThrough == {"STATE"} \cup Range(PassFieldsTail)

\* the tokens build_basket makes itself for data_row: age group, sex group, flag labels
GeneratedLabels(data_row) ==
    {basket_arg(data_row, f) : f \in Contributed(data_row) \ PassThrough}

Distinct(s) == \A i, j \in DOMAIN s : i # j => s[i] # s[j]

\* C10 (as stated): every basket returned by build_basket holds pairwise distinct tokens.
C10_BasketDistinct ==
    pc = "built" => Distinct(basket)

\* C10 (amended): the basket's tokens are pairwise distinct whenever the row's
\* non-missing pass-through fields (STATE, VAX_NAME, SYMPTOM1..5) hold pairwise
\* different values, none of them a label build_basket generates for that row.
C10_DistinctWhenInputsDistinct ==
    (/\ pc = "built"
     /\ \A f, g \in PassThrough :
           (f # g /\ ~IsMissing(row, f) /\ ~IsMissing(row, g)) => row[f] # row[g]
     /\ \A f \in PassThrough :
           ~IsMissing(row, f) => row[f] \notin GeneratedLabels(row))
        => Distinct(basket)

\* a basket built from a row with two different symptoms and two flags set
C10_Witness ==
    /\ pc = "built"
    /\ row["SYMPTOM1"] = "Pain" /\ row["SYMPTOM2"] = "Disability"
    /\ row["DIED"] = "Y"
    /\ Len(basket) = 5
    /\ Distinct(basket)

\* ------------------------------------------------ readers and join
\* An input file is [header: set of column names, rows: sequence of rows], a row a
\* function from the header to values.  A dataframe is [index, columns, rows]; its rows
\* keep the index value under the index's name.

\* DataFrame.set_index('VAERS_ID') raises KeyError when the file has no such column
read_vaers_csv_raises(file) == "VAERS_ID" \notin file.header

read_vaers_csv(file) ==
    [index |-> "VAERS_ID", columns |-> file.header \ {"VAERS_ID"}, rows |-> file.rows]

read_data_file(file) == read_vaers_csv(file)

read_symptoms_file(file) == read_vaers_csv(file)

read_vax_file(file) == read_vaers_csv(file)

\* the rows of ys whose index equals k, in order, each joined to the row x
RECURSIVE MatchRows(_, _, _)
MatchRows(x, ys, j) ==
    IF j > Len(ys) THEN <<>>
    ELSE (IF ys[j]["VAERS_ID"] = x["VAERS_ID"] THEN <<x @@ ys[j]>> ELSE <<>>)
         \o MatchRows(x, ys, j + 1)

RECURSIVE JoinRows(_, _, _)
JoinRows(xs, ys, i) ==
    IF i > Len(xs) THEN <<>>
    ELSE MatchRows(xs[i], ys, 1) \o JoinRows(xs, ys, i + 1)

\* how='left': a left row without a match is kept (right columns missing)
pd_merge_left(x, y) ==
    [index |-> "VAERS_ID", columns |-> x.columns \cup y.columns,
     rows |-> LET RECURSIVE L(_)
                  L(i) == IF i > Len(x.rows) THEN <<>>
                          ELSE (IF MatchRows(x.rows[i], y.rows, 1) = <<>>
                                THEN <<x.rows[i] @@ [c \in y.columns |-> NA]>>
                                ELSE MatchRows(x.rows[i], y.rows, 1)) \o L(i + 1)
              IN L(1)]

\* a join that keeps only the first match of each left row
pd_merge_first(x, y) ==
    [index |-> "VAERS_ID", columns |-> x.columns \cup y.columns,
     rows |-> LET RECURSIVE L(_)
                  L(i) == IF i > Len(x.rows) THEN <<>>
                          ELSE (IF MatchRows(x.rows[i], y.rows, 1) = <<>> THEN <<>>
                                ELSE <<Head(MatchRows(x.rows[i], y.rows, 1))>>) \o L(i + 1)
              IN L(1)]

\* pd.merge(x, y, left_index=True, right_index=True, sort=False): how='inner', no
\* validate argument, so every pair of rows with equal index is joined, in the order
\* of the left rows.  The three files share no column but the index, so the suffixes
\* pandas gives to overlapping columns do not arise.
pd_merge(x, y) ==
    [index |-> "VAERS_ID", columns |-> x.columns \cup y.columns,
     rows |-> JoinRows(x.rows, y.rows, 1)]

\* functools.reduce(lambda x, y: pd.merge(x, y, ...), dataframes)
RECURSIVE reduce_merge(_, _, _)
reduce_merge(acc, dataframes, i) ==
    IF i > Len(dataframes) THEN acc
    ELSE reduce_merge(pd_merge(acc, dataframes[i]), dataframes, i + 1)

merge_dataframes(dataframes) == reduce_merge(dataframes[1], dataframes, 2)

\* ------------------------------------------------ main: stages
\* a run writes the frequent itemsets before generating the rules
NextStage_save_early(s) ==
    CASE s = "read_data" -> "read_symptoms"
      [] s = "read_symptoms" -> "read_vax"
      [] s = "read_vax" -> "merge"
      [] s = "merge" -> "baskets"
      [] s = "baskets" -> "one_hot"
      [] s = "one_hot" -> "fpgrowth"
      [] s = "fpgrowth" -> "save_itemsets"
      [] s = "save_itemsets" -> "rules"
      [] s = "rules" -> "save_rules"
      [] s = "save_rules" -> "done"

\* the statements of main in program order (lines 196-218)
NextStage(s) ==
    CASE s = "read_data" -> "read_symptoms"
      [] s = "read_symptoms" -> "read_vax"
      [] s = "read_vax" -> "merge"
      [] s = "merge" -> "baskets"
      [] s = "baskets" -> "one_hot"
      [] s = "one_hot" -> "fpgrowth"
      [] s = "fpgrowth" -> "rules"
      [] s = "rules" -> "save_itemsets"
      [] s = "save_itemsets" -> "save_rules"
      [] s = "save_rules" -> "done"

\* an exception leaves main: nothing after the raising statement runs
Raise(e) == pc' = "failed" /\ error' = e

ReadData ==
    /\ pc = "read_data"
    /\ IF read_vaers_csv_raises(data)
       THEN Raise("KeyError") /\ UNCHANGED data
       ELSE data' = read_data_file(data) /\ pc' = NextStage(pc) /\ UNCHANGED error
    /\ UNCHANGED <<age, group, fi_group, row, basket, symptoms, vax, merged_data, baskets,
                   one_hot, dense_df, frequent_itemsets, assoc_rules, written, cfg>>

ReadSymptoms ==
    /\ pc = "read_symptoms"
    /\ IF read_vaers_csv_raises(symptoms)
       THEN Raise("KeyError") /\ UNCHANGED symptoms
       ELSE symptoms' = read_symptoms_file(symptoms) /\ pc' = NextStage(pc) /\ UNCHANGED error
    /\ UNCHANGED <<age, group, fi_group, row, basket, data, vax, merged_data, baskets,
                   one_hot, dense_df, frequent_itemsets, assoc_rules, written, cfg>>

ReadVax ==
    /\ pc = "read_vax"
    /\ IF read_vaers_csv_raises(vax)
       THEN Raise("KeyError") /\ UNCHANGED vax
       ELSE vax' = read_vax_file(vax) /\ pc' = NextStage(pc) /\ UNCHANGED error
    /\ UNCHANGED <<age, group, fi_group, row, basket, data, symptoms, merged_data, baskets,
                   one_hot, dense_df, frequent_itemsets, assoc_rules, written, cfg>>

MergeData ==
    /\ pc = "merge"
    /\ merged_data' = merge_dataframes(<<data, symptoms, vax>>)
    /\ pc' = NextStage(pc)
    /\ UNCHANGED <<age, group, fi_group, row, basket, data, symptoms, vax, baskets,
                   one_hot, dense_df, frequent_itemsets, assoc_rules, written, error, cfg>>

\* ------------------------------------------------ specification: the join
KeySeqs == UNION {[1 .. n -> 1 .. NumKeys] : n \in 0 .. MaxRows}

\* the value of the payload column in the i-th row of a drawn file
PayloadAt(i) == <<"v1", "v2", "v3", "v4">>[i]

JoinFile(col, keys) ==
    [header |-> {"VAERS_ID", col},
     rows |-> [i \in DOMAIN keys |->
                  [c \in {"VAERS_ID", col} |-> IF c = "VAERS_ID" THEN keys[i] ELSE PayloadAt(i)]]]

InitJoin ==
    /\ pc = "read_data"
    /\ \E kd, ks, kv \in KeySeqs :
          /\ data = JoinFile("STATE", kd)
          /\ symptoms = JoinFile("SYMPTOM1", ks)
          /\ vax = JoinFile("VAX_NAME", kv)
    /\ merged_data = Unused
    /\ age = Unused /\ group = Unused /\ fi_group = Unused
    /\ row = Unused /\ basket = Unused
    /\ baskets = Unused /\ one_hot = Unused /\ dense_df = Unused
    /\ frequent_itemsets = Unused /\ assoc_rules = Unused
    /\ written = Unused /\ error = NoError /\ cfg = Unused

NextJoin == ReadData \/ ReadSymptoms \/ ReadVax \/ MergeData

SpecJoin == InitJoin /\ [][NextJoin]_vars

KeysOf(df) == {df.rows[i]["VAERS_ID"] : i \in DOMAIN df.rows}

CountKey(df, k) == Cardinality({i \in DOMAIN df.rows : df.rows[i]["VAERS_ID"] = k})

Merged == pc = "baskets"

\* C3: the merged table's keys are exactly the keys present in all three input tables.
C3_InnerJoinKeys ==
    Merged => KeysOf(merged_data) = KeysOf(data) \cap KeysOf(symptoms) \cap KeysOf(vax)

\* a key held by two tables only gave no merged row, a key held by all three did
C3_Witness ==
    /\ Merged
    /\ \E k \in KeysOf(data) \cap KeysOf(symptoms) : k \notin KeysOf(vax)
    /\ KeysOf(merged_data) # {}

TokenOrder ==
    <<"Age 0-2", "Age 14-18", "Age 19-33", "Age 3-5", "Age 34-48", "Age 49-64",
      "Age 6-13", "Age 65-78", "Age 79-older", "Birth defect", "CA", "COVID19", "Died",
      "Disability", "Emergency room visit", "FLU", "Female", "Hospitalized ",
      "Life-threatening illness", "Male", "NY", "Pain",
      "Prolongation of existing hospitalization", "Rash", "Recovered", "Unknown Sex">>

\* sorted(items) for a set of tokens
sorted(items) ==
    LET RECURSIVE S(_)
        S(i) == IF i > Len(TokenOrder) THEN <<>>
                ELSE (IF TokenOrder[i] \in items THEN <<TokenOrder[i]>> ELSE <<>>) \o S(i + 1)
    IN S(1)

RECURSIVE Flatten(_, _)
Flatten(X, i) == IF i > Len(X) THEN <<>> ELSE X[i] \o Flatten(X, i + 1)

\* columns taken from the first transaction only
te_fit_first(X) == IF Len(X) = 0 THEN <<>> ELSE sorted(Range(X[1]))

\* TransactionEncoder.fit: columns_ = sorted(set of all items of all transactions)
te_fit(X) == sorted(Range(Flatten(X, 1)))

\* TransactionEncoder.transform(X): a boolean array of len(X) rows and len(columns_)
\* columns, True at [row, column of item] for each item of the row's transaction
te_transform(columns, X) ==
    [r \in DOMAIN X |->
        [j \in DOMAIN columns |-> \E k \in DOMAIN X[r] : X[r][k] = columns[j]]]

\* TransactionEncoder.transform(X, sparse=True): the CSR arrays, one index per item of
\* set(transaction) that is a column; indptr[r], indptr[r+1] delimit row r
te_transform_sparse(columns, X) ==
    LET RowIdx(r) ==
            LET RECURSIVE I(_)
                I(j) == IF j > Len(columns) THEN <<>>
                        ELSE (IF columns[j] \in Range(X[r]) THEN <<j>> ELSE <<>>) \o I(j + 1)
            IN I(1)
        RECURSIVE Build(_, _, _)
        Build(r, indices, indptr) ==
            IF r > Len(X) THEN [indices |-> indices, indptr |-> indptr]
            ELSE Build(r + 1, indices \o RowIdx(r),
                       Append(indptr, Len(indices) + Len(RowIdx(r))))
    IN Build(1, <<>>, <<0>>)

\* pd.DataFrame.sparse.from_spmatrix(te_ary, columns): row r holds the set of column
\* indices stored for it
from_spmatrix(csr, columns) ==
    [columns |-> columns,
     rows |-> [r \in 1 .. (Len(csr.indptr) - 1) |->
                  {csr.indices[k] : k \in (csr.indptr[r] + 1) .. csr.indptr[r + 1]}]]

\* main.py: te.fit_transform(baskets, sparse=True), then from_spmatrix
build_one_hot_basket_dataset(bs) ==
    from_spmatrix(te_transform_sparse(te_fit(bs), bs), te_fit(bs))

\* freq_itemsets.py: te.fit(baskets).transform(baskets), then pd.DataFrame
fi_build_one_hot_basket_dataset(bs) ==
    [columns |-> te_fit(bs), rows |-> te_transform(te_fit(bs), bs)]

\* ------------------------------------------------ specification: the encoders
EncTokens == {<<"CA", "Died", "Female", "Male", "Pain">>[i] : i \in 1 .. NumTokens}

EncBaskets == UNION {[1 .. n -> EncTokens] : n \in 0 .. MaxBasketLen}

\* the lists drawn hold at least one token: every basket build_basket returns holds a
\* sex token, and csr_matrix infers the matrix's shape from the stored indices
EncLists ==
    {X \in UNION {[1 .. n -> EncBaskets] : n \in 0 .. MaxBaskets} : Flatten(X, 1) # <<>>}

InitEncode ==
    /\ pc = "one_hot"
    /\ baskets \in EncLists
    /\ one_hot = Unused /\ dense_df = Unused
    /\ age = Unused /\ group = Unused /\ fi_group = Unused
    /\ row = Unused /\ basket = Unused
    /\ data = Unused /\ symptoms = Unused /\ vax = Unused /\ merged_data = Unused
    /\ frequent_itemsets = Unused /\ assoc_rules = Unused
    /\ written = Unused /\ error = NoError /\ cfg = Unused

Encode ==
    /\ pc = "one_hot"
    /\ one_hot' = build_one_hot_basket_dataset(baskets)
    /\ dense_df' = fi_build_one_hot_basket_dataset(baskets)
    /\ pc' = "encoded"
    /\ UNCHANGED <<age, group, fi_group, row, basket, data, symptoms, vax, merged_data,
                   baskets, frequent_itemsets, assoc_rules, written, error, cfg>>

NextEncode == Encode

SpecEncode == InitEncode /\ [][NextEncode]_vars

\* the tokens a row of the sparse / dense dataframe marks present
DecodeSparse(df, r) == {df.columns[j] : j \in df.rows[r]}

DecodeDense(df, r) == {df.columns[j] : j \in {c \in DOMAIN df.columns : df.rows[r][c]}}

Frac(a, b) == [num |-> a, den |-> b]

\* the test written > instead of >=
IsFrequent_strict(count, n, min_support) == count * min_support.den > min_support.num * n

\* item_support >= min_support, with item_support = count / n
IsFrequent(count, n, min_support) == count * min_support.den >= min_support.num * n

\* math.ceil(min_support * n): the minimum support as a count
MinsupCount(n, min_support) == (min_support.num * n + min_support.den - 1) \div min_support.den

\* An FP-tree is modelled by the transactions inserted into it (a sequence of sets of
\* column indices): a node's count is the number of transactions through it.
TreeItems(tree) == UNION Range(tree)

ItemCount(tree, item) == Cardinality({t \in DOMAIN tree : item \in tree[t]})

\* the tree's rank: items in ascending order of count (ties by column index); a
\* transaction is inserted in descending rank, so an item's ancestors rank above it
RankBelow(tree, a, b) ==
    \/ ItemCount(tree, a) < ItemCount(tree, b)
    \/ ItemCount(tree, a) = ItemCount(tree, b) /\ a < b

\* t1's path is a prefix of t2's
PathPrefix(tree, t1, t2) ==
    t1 \subseteq t2 /\ \A x \in t2 \ t1 : \A y \in t1 : RankBelow(tree, x, y)

\* FPTree.is_path: no node has two children
is_path(tree) ==
    \A i, j \in DOMAIN tree :
        PathPrefix(tree, tree[i], tree[j]) \/ PathPrefix(tree, tree[j], tree[i])

Restrict(tree, keep) == [t \in DOMAIN tree |-> tree[t] \cap keep]

\* FPTree.conditional_tree(cond_item, minsup): the prefix paths of cond_item's nodes,
\* restricted to the items whose count in them is >= minsup
conditional_tree(tree, cond_item, minsup) ==
    LET branches == SelectSeq(tree, LAMBDA t : cond_item \in t)
        paths == [b \in DOMAIN branches |->
                     {x \in branches[b] : RankBelow(tree, cond_item, x)}]
        keep == {x \in TreeItems(paths) : ItemCount(paths, x) >= minsup}
    IN Restrict(paths, keep)

MinOf(S) == CHOOSE x \in S : \A y \in S : x <= y

\* fpg_step: the (support count, itemset) pairs the generator yields
RECURSIVE fpg_step(_, _, _)
fpg_step(tree, cond_items, minsup) ==
    LET items == TreeItems(tree)
    IN IF is_path(tree)
       THEN {[count |-> MinOf({ItemCount(tree, i) : i \in S}), items |-> cond_items \cup S] :
                S \in (SUBSET items) \ {{}}}
       ELSE {[count |-> ItemCount(tree, i), items |-> cond_items \cup {i}] : i \in items}
            \cup UNION {fpg_step(conditional_tree(tree, i, minsup), cond_items \cup {i}, minsup) :
                           i \in items}

\* setup_fptree: the tree of the rows restricted to the frequent items
setup_fptree(df, min_support) ==
    Restrict(df.rows, {i \in DOMAIN df.columns :
                          IsFrequent(ItemCount(df.rows, i), Len(df.rows), min_support)})

\* mlxtend.frequent_patterns.fpgrowth(df, min_support, use_colnames=True): a dataframe
\* with the columns support and itemsets (sets of column names)
fpgrowth(df, min_support) ==
    [kind |-> "DataFrame",
     rows |-> {[support |-> Frac(y.count, Len(df.rows)),
                itemsets |-> {df.columns[i] : i \in y.items}] :
                  y \in fpg_step(setup_fptree(df, min_support), {},
                                 MinsupCount(Len(df.rows), min_support))}]

\* ------------------------------------------------ association rules
\* confidence computed with the consequent's support in place of the antecedent's
MetricGE_swapped(metric, sAC, sA, sC, thr) ==
    sAC.num * thr.den >= thr.num * sC.num

\* score >= min_threshold for the score metric_dict[metric](sAC, sA, sC); the three
\* supports are counts over the same number of baskets n = sAC.den
MetricGE(metric, sAC, sA, sC, thr) ==
    LET n == sAC.den
        a == sAC.num
        b == sA.num
        c == sC.num
    IN CASE metric = "support" -> a * thr.den >= thr.num * n
         [] metric = "confidence" -> a * thr.den >= thr.num * b
         [] metric = "lift" -> a * n * thr.den >= thr.num * b * c
         [] metric = "leverage" -> (a * n - b * c) * thr.den >= thr.num * n * n
         [] metric = "conviction" ->
               \/ a = b
               \/ (n - c) * b * thr.den >= thr.num * n * (b - a)

SupportOf(fi, itemset) == (CHOOSE r \in fi.rows : r.itemsets = itemset).support

\* association_rules raises ValueError when the frequent-itemset dataframe is empty
association_rules_raises(fi) == fi.rows = {}

\* mlxtend.frequent_patterns.association_rules(df, metric, min_threshold): for every
\* frequent itemset and every split of it into a non-empty antecedent and the rest,
\* the rule is kept when its score is >= min_threshold
association_rules(fi, metric, min_threshold) ==
    [kind |-> "DataFrame",
     rows |-> {[antecedents |-> A,
                consequents |-> r.itemsets \ A,
                antecedent_support |-> SupportOf(fi, A),
                consequent_support |-> SupportOf(fi, r.itemsets \ A),
                support |-> r.support] :
                  <<r, A>> \in {x \in UNION {{<<q, B>> : B \in (SUBSET q.itemsets) \ {{}, q.itemsets}} :
                                                q \in fi.rows} :
                                  MetricGE(metric, x[1].support, SupportOf(fi, x[2]),
                                           SupportOf(fi, x[1].itemsets \ x[2]), min_threshold)}}]

\* ------------------------------------------------ main: baskets to output files
\* merged_data.apply(build_basket, axis=1): a Series of baskets; on a frame without
\* rows apply does not call build_basket on a row and returns an empty DataFrame
apply_build_basket(df) ==
    IF Len(df.rows) = 0
    THEN [kind |-> "DataFrame", values |-> <<>>]
    ELSE [kind |-> "Series", values |-> [i \in DOMAIN df.rows |-> build_basket(df.rows[i])]]

apply_build_basket_raises(df) ==
    Len(df.rows) > 0 /\ \E i \in DOMAIN df.rows : build_basket_raises(df.rows[i])

CreateBaskets ==
    /\ pc = "baskets"
    /\ IF apply_build_basket_raises(merged_data)
       THEN Raise("KeyError") /\ UNCHANGED baskets
       ELSE baskets' = apply_build_basket(merged_data) /\ pc' = NextStage(pc) /\ UNCHANGED error
    /\ UNCHANGED <<age, group, fi_group, row, basket, data, symptoms, vax, merged_data,
                   one_hot, dense_df, frequent_itemsets, assoc_rules, written, cfg>>

\* baskets.to_list(): a DataFrame has no to_list (AttributeError)
OneHotBaskets ==
    /\ pc = "one_hot"
    /\ IF baskets.kind # "Series"
       THEN Raise("AttributeError") /\ UNCHANGED one_hot
       ELSE /\ one_hot' = build_one_hot_basket_dataset(baskets.values)
            /\ pc' = NextStage(pc) /\ UNCHANGED error
    /\ UNCHANGED <<age, group, fi_group, row, basket, data, symptoms, vax, merged_data,
                   baskets, dense_df, frequent_itemsets, assoc_rules, written, cfg>>

ExtractItemsets ==
    /\ pc = "fpgrowth"
    /\ frequent_itemsets' = fpgrowth(one_hot, cfg.freq_itemsets_min_support)
    /\ pc' = NextStage(pc)
    /\ UNCHANGED <<age, group, fi_group, row, basket, data, symptoms, vax, merged_data,
                   baskets, one_hot, dense_df, assoc_rules, written, error, cfg>>

GenerateRules ==
    /\ pc = "rules"
    /\ IF association_rules_raises(frequent_itemsets)
       THEN Raise("ValueError") /\ UNCHANGED assoc_rules
       ELSE /\ assoc_rules' = association_rules(frequent_itemsets, cfg.assoc_rule_metric,
                                                cfg.assoc_rule_min_threshold)
            /\ pc' = NextStage(pc) /\ UNCHANGED error
    /\ UNCHANGED <<age, group, fi_group, row, basket, data, symptoms, vax, merged_data,
                   baskets, one_hot, dense_df, frequent_itemsets, written, cfg>>

SaveItemsets ==
    /\ pc = "save_itemsets"
    /\ written' = Append(written, [path |-> "freq_itemsets_output_path",
                                   table |-> frequent_itemsets])
    /\ pc' = NextStage(pc)
    /\ UNCHANGED <<age, group, fi_group, row, basket, data, symptoms, vax, merged_data,
                   baskets, one_hot, dense_df, frequent_itemsets, assoc_rules, error, cfg>>

SaveRules ==
    /\ pc = "save_rules"
    /\ written' = Append(written, [path |-> "assoc_rules_output_path", table |-> assoc_rules])
    /\ pc' = NextStage(pc)
    /\ UNCHANGED <<age, group, fi_group, row, basket, data, symptoms, vax, merged_data,
                   baskets, one_hot, dense_df, frequent_itemsets, assoc_rules, error, cfg>>

\* ------------------------------------------------ specification: mining stages
\* the stages of main from the basket list on, for basket lists and parameters drawn
\* from bounded sets
MineTokenSet == {<<"CA", "Female", "Died", "Male", "Pain">>[i] : i \in 1 .. MineTokens}

\* the corpus of the worked example
ExampleBaskets == << <<"CA", "Female", "Died">>, <<"CA", "Male">>, <<"CA", "Female", "Died">> >>

\* the lists drawn: the example, and the lists of at least one basket and one token
\* (main reaches the encoder only with a merged row, whose basket holds a sex token)
MineLists ==
    {ExampleBaskets} \cup
    {X \in UNION {[1 .. n -> {sorted(S) : S \in SUBSET MineTokenSet}] : n \in 1 .. MineBaskets} :
        Flatten(X, 1) # <<>>}

MinSupports == {Frac(1, 1000), Frac(1, 3), Frac(1, 2), Frac(2, 3), Frac(1, 1)}

Metrics == {"support", "confidence", "lift", "leverage", "conviction"}

MinThresholds == {Frac(0, 1), Frac(1, 2), Frac(4, 5), Frac(1, 1), Frac(3, 2)}

InitMine ==
    /\ pc = "one_hot"
    /\ \E bs \in MineLists : baskets = [kind |-> "Series", values |-> bs]
    /\ \E ms \in MinSupports, m \in Metrics, th \in MinThresholds :
          cfg = [freq_itemsets_min_support |-> ms, assoc_rule_metric |-> m,
                 assoc_rule_min_threshold |-> th]
    /\ one_hot = Unused /\ dense_df = Unused
    /\ frequent_itemsets = Unused /\ assoc_rules = Unused
    /\ written = <<>> /\ error = NoError
    /\ age = Unused /\ group = Unused /\ fi_group = Unused
    /\ row = Unused /\ basket = Unused
    /\ data = Unused /\ symptoms = Unused /\ vax = Unused /\ merged_data = Unused

NextMine == OneHotBaskets \/ ExtractItemsets \/ GenerateRules \/ SaveItemsets \/ SaveRules

SpecMine == InitMine /\ [][NextMine]_vars

\* the number of baskets holding every token of S, counted on the basket list itself
TrueCount(S) == Cardinality({i \in DOMAIN baskets.values : S \subseteq Range(baskets.values[i])})

NumBaskets == Len(baskets.values)

AllTokens == Range(Flatten(baskets.values, 1))

Mined == frequent_itemsets # Unused

TrueMetricGE(metric, A, C, thr) ==
    LET n == NumBaskets
        a == TrueCount(A \cup C)
        b == TrueCount(A)
        c == TrueCount(C)
    IN CASE metric = "support" -> a * thr.den >= thr.num * n
         [] metric = "confidence" -> b > 0 /\ a * thr.den >= thr.num * b
         [] metric = "lift" -> b > 0 /\ c > 0 /\ a * n * thr.den >= thr.num * b * c
         [] metric = "leverage" -> (a * n - b * c) * thr.den >= thr.num * n * n
         [] metric = "conviction" ->
               b > 0 /\ (a = b \/ (n - c) * b * thr.den >= thr.num * n * (b - a))

\* C9: every retained rule has a non-empty antecedent and a non-empty consequent that
\* are disjoint, their union is a frequent itemset, and the rule's value on the
\* configured metric is >= assoc_rule_min_threshold.
C9_RulesMeetThreshold ==
    assoc_rules # Unused =>
        \A r \in assoc_rules.rows :
            /\ r.antecedents # {} /\ r.consequents # {}
            /\ r.antecedents \cap r.consequents = {}
            /\ \E f \in frequent_itemsets.rows : f.itemsets = r.antecedents \cup r.consequents
            /\ TrueCount(r.antecedents \cup r.consequents) * cfg.freq_itemsets_min_support.den
                  >= cfg.freq_itemsets_min_support.num * NumBaskets
            /\ TrueMetricGE(cfg.assoc_rule_metric, r.antecedents, r.consequents,
                            cfg.assoc_rule_min_threshold)

\* with the default metric and threshold the example keeps Female => Died (confidence 1)
\* and drops CA => Female (confidence 2/3)
C9_Witness ==
    /\ assoc_rules # Unused
    /\ baskets.values = ExampleBaskets
    /\ cfg.assoc_rule_metric = "confidence" /\ cfg.assoc_rule_min_threshold = Frac(4, 5)
    /\ cfg.freq_itemsets_min_support = Frac(1, 2)
    /\ \E r \in assoc_rules.rows : r.antecedents = {"Female"} /\ r.consequents = {"Died"}
    /\ \A r \in assoc_rules.rows : ~(r.antecedents = {"CA"} /\ r.consequents = {"Female"})

\* ------------------------------------------------ specification: a run of main
DataColumns == {"STATE", "AGE_YRS", "SEX"} \cup Range(FlagFields)

SymptomColumns == {"SYMPTOM1", "SYMPTOM2", "SYMPTOM3", "SYMPTOM4", "SYMPTOM5"}

\* the two report profiles drawn for the VAERSDATA file
DataProfile(p, k) ==
    [c \in {"VAERS_ID"} \cup DataColumns |->
        IF c = "VAERS_ID" THEN k
        ELSE IF p = "A"
             THEN (CASE c = "STATE" -> "CA" [] c = "AGE_YRS" -> Float(2 * AgeDenom)
                     [] c = "SEX" -> "F" [] c = "DIED" -> "Y" [] OTHER -> NA)
             ELSE (CASE c = "AGE_YRS" -> NaN [] c = "SEX" -> "M"
                     [] c = "HOSPITAL" -> "Y" [] OTHER -> NA)]

SymptomRow(k) ==
    [c \in {"VAERS_ID"} \cup SymptomColumns |->
        IF c = "VAERS_ID" THEN k
        ELSE IF c = "SYMPTOM1" THEN <<"Pain", "Rash", "Pain", "Rash">>[k] ELSE NA]

VaxRow(k) ==
    [c \in {"VAERS_ID", "VAX_NAME"} |->
        IF c = "VAERS_ID" THEN k ELSE <<"FLU", "COVID19", "FLU", "COVID19">>[k]]

\* the rows r[k] for the keys of K, in ascending key order
RECURSIVE RowsFor(_, _, _)
RowsFor(K, r, k) ==
    IF k > NumKeys THEN <<>>
    ELSE (IF k \in K THEN <<r[k]>> ELSE <<>>) \o RowsFor(K, r, k + 1)

\* a file whose header lacks the columns of drop (its rows then lack them too)
File(header, rows, drop) ==
    [header |-> header \ drop,
     rows |-> [i \in DOMAIN rows |-> [c \in header \ drop |-> rows[i][c]]]]

\* the columns a drawn file may lack
Drops == {{}, {"VAERS_ID"}, {"STATE"}, {"SYMPTOM1"}, {"VAX_NAME"}}

InitMain ==
    /\ pc = "read_data"
    /\ \E prof \in [1 .. NumKeys -> {"absent", "A", "B"}], KS, KV \in SUBSET (1 .. NumKeys),
          dd, ds, dv \in Drops :
          /\ Cardinality({x \in {dd, ds, dv} : x # {}}) <= 1
          /\ dd \subseteq {"VAERS_ID"} \cup DataColumns
          /\ ds \subseteq {"VAERS_ID"} \cup SymptomColumns
          /\ dv \subseteq {"VAERS_ID", "VAX_NAME"}
          /\ data = File({"VAERS_ID"} \cup DataColumns,
                         RowsFor({k \in 1 .. NumKeys : prof[k] # "absent"},
                                 [k \in 1 .. NumKeys |-> DataProfile(prof[k], k)], 1), dd)
          /\ symptoms = File({"VAERS_ID"} \cup SymptomColumns, RowsFor(KS, [k \in 1 .. NumKeys |-> SymptomRow(k)], 1), ds)
          /\ vax = File({"VAERS_ID", "VAX_NAME"}, RowsFor(KV, [k \in 1 .. NumKeys |-> VaxRow(k)], 1), dv)
    /\ \E ms \in {Frac(1, 1000), Frac(1, 1)} :
          cfg = [freq_itemsets_min_support |-> ms, assoc_rule_metric |-> "confidence",
                 assoc_rule_min_threshold |-> Frac(4, 5)]
    /\ merged_data = Unused /\ baskets = Unused
    /\ one_hot = Unused /\ dense_df = Unused
    /\ frequent_itemsets = Unused /\ assoc_rules = Unused
    /\ written = <<>> /\ error = NoError
    /\ age = Unused /\ group = Unused /\ fi_group = Unused
    /\ row = Unused /\ basket = Unused

Next ==
    \/ ReadData \/ ReadSymptoms \/ ReadVax \/ MergeData \/ CreateBaskets
    \/ OneHotBaskets \/ ExtractItemsets \/ GenerateRules \/ SaveItemsets \/ SaveRules

Spec == InitMain /\ [][Next]_vars

Ended == pc \in {"done", "failed"}

WrittenPaths == {written[i].path : i \in DOMAIN written}

\* C5: when the join yields zero rows, or mining leaves zero frequent itemsets (or none
\* with two or more tokens), the run completes without raising and writes both output
\* tables, the rule table empty (and the itemset table empty when there are no
\* frequent itemsets).
C5_EmptyResultNotFatal ==
    (/\ Ended
     /\ merged_data # Unused
     /\ \/ Len(merged_data.rows) = 0
        \/ /\ frequent_itemsets # Unused
           /\ \A f \in frequent_itemsets.rows : Cardinality(f.itemsets) < 2)
        => /\ pc = "done"
           /\ WrittenPaths = {"freq_itemsets_output_path", "assoc_rules_output_path"}
           /\ assoc_rules.rows = {}

\* C6: no run is in a state where it has failed and an output file has been written.
C6_NoPartialOutput ==
    pc = "failed" => written = <<>>

\* a run failed on a missing key column / a missing required column
C6_Witness ==
    /\ pc = "failed" /\ error = "KeyError" /\ written = <<>>
    /\ merged_data # Unused /\ Len(merged_data.rows) > 0

====
